---------------------------- MODULE Spec2Model ----------------------------
(***************************************************************************)
(* A model of sqlite-cache (src/src/lib.rs): one Cache over one topic      *)
(* table, two Topic handles on that table, caller threads that call        *)
(* get / set / delete / get_for_update / KeyUpdater::write, and the        *)
(* periodic_task thread with its flush, its GC pass and the stop           *)
(* handshake of Drop for CacheImpl.                                        *)
(*                                                                         *)
(* Atomicity follows the mutexes of the code: a get, a set or a delete     *)
(* holds the connection mutex from its first to its last statement, so it  *)
(* is one step; flush takes the batch in one step and then locks the       *)
(* connection once per entry, so it is one step per entry; get_for_update  *)
(* releases the listeners mutex before it reads, and KeyUpdater::write     *)
(* returns from set before the KeyUpdater is dropped, so each is two steps.*)
(***************************************************************************)
EXTENDS Integers, Sequences, FiniteSets, TLC

\* ------------------------------------------------------------- bounds
\* The clock (SystemTime::now() in seconds) runs from 0 to MaxTime.
MaxTime == 2
\* At most MaxFaults statements of the backing store fail in one behaviour.
MaxFaults == 1
\* A listeners entry holds at most MaxWaiters senders (a Vec in the code).
MaxWaiters == 2
\* flush_gc_ratio is drawn from 1..MaxRatio.
MaxRatio == 2
\* u64 and i64 are modelled WordBits wide: u64::MAX is 2^WordBits - 1.
WordBits == 4

Callers == {"c1", "c2", "c3"}
Handles == {"h1", "h2"}
Keys    == {"hello", "hello2"}
\* The key of the runs in which all callers work on one key.
OneKey  == {"hello"}
Values  == {"v1", "v2"}
TTLs    == {1, 2}


\* ------------------------------------------------------------ options
None == << >>
Some(x) == << x >>
IsSome(o) == Len(o) = 1
Unwrap(o) == o[1]

\* ---------------------------------------------------------- arithmetic
U64_MAX == 2 ^ WordBits - 1
I64_MAX == 2 ^ (WordBits - 1) - 1
Min(a, b) == IF a < b THEN a ELSE b
saturating_add(a, b) == IF a + b > U64_MAX THEN U64_MAX ELSE a + b

VARIABLES
    now,               \* SystemTime::now() since UNIX_EPOCH, in seconds
    config,            \* CacheConfig: flush_gc_ratio, max_ttl
    table,             \* the topic table: key -> None | Some(row)
    lazy_expiry_update,\* CacheImpl.lazy_expiry_update: key -> None | Some(expiry)
    listeners,         \* TopicImpl.listeners, per handle: key -> None | Some(senders)
    pc,                \* where each caller thread is
    at,                \* the handle and key of a caller's get_for_update / KeyUpdater
    ret,               \* the last result returned to a caller
    faults,            \* storage failures so far
    lpc,               \* where periodic_task is
    batch,             \* flush's drained map, the entries not yet applied
    gc_ratio_counter,  \* periodic_task's counter
    gcNow,             \* gc's `now`
    iteration,         \* history: the number of the loop's timeout iteration, modulo flush_gc_ratio
    lret,              \* what periodic_task did last: a flush entry or a GC pass
    stop_q,            \* messages in the stop channel
    completion_q,      \* messages in the completion channel
    shadow,            \* history: what the callers' set/get/delete of a key amount to
    stable             \* history: the value a holder or releaser of (handle, key) knows

vars == << now, config, table, lazy_expiry_update, listeners, pc, at, ret, faults,
           lpc, batch, gc_ratio_counter, gcNow, iteration, lret, stop_q, completion_q,
           shadow, stable >>

callerVars == << pc, at, ret >>
loopVars == << lpc, batch, gc_ratio_counter, gcNow, iteration, lret >>
chanVars == << stop_q, completion_q >>
histVars == << shadow, stable >>

NoAt == [h |-> "-", k |-> "-"]
NoRet == [op |-> "-", k |-> "-", val |-> None, ok |-> TRUE]
NoLret == [op |-> "-", k |-> "-", ok |-> TRUE, t |-> 0]

\* ------------------------------------------------------- the row logic
\* Topic::get and Topic::set compute the absolute expiry the same way.
ExpiryAt(t, ttl) == Min(saturating_add(t, ttl), I64_MAX)

\* ClampTtl without the max_ttl branch: only the i64 clamp is left.
ClampTtlNoCap(ttl) == Min(ttl, I64_MAX)

\* Topic::set clamps the requested ttl.
ClampTtl(ttl) ==
    Min(IF IsSome(config.max_ttl) THEN Min(ttl, Unwrap(config.max_ttl)) ELSE ttl,
        I64_MAX)

ValueOf(row) == IF IsSome(row) THEN Some(Unwrap(row).v) ELSE None

\* A statement of the backing store succeeds, or fails while faults remain.
Outcomes == IF faults < MaxFaults THEN {TRUE, FALSE} ELSE {TRUE}
Charge(okk) == faults' = IF okk THEN faults ELSE faults + 1

\* ------------------------------------------------------------ history
Unknown == None
Invalidate(st, k) ==
    [h \in Handles |-> [kk \in Keys |-> IF kk = k THEN Unknown ELSE st[h][kk]]]
\* stable[h][k] is Unknown, or what the last owner of (h, k) knows of the
\* key's value while nobody else has changed it: `val` is the value, `tag` is
\* "held" (returned by get_for_update), "written" (stored by write),
\* "released" (a written KeyUpdater dropped), "abandoned" (a KeyUpdater dropped
\* without write) or "failed" (dropped after a failed write); `after` is the
\* tag the owner found when it acquired the key.
Mark(st, h, k, tag, val) ==
    [st EXCEPT ![h][k] =
        Some([tag |-> tag, val |-> val,
              after |-> IF tag = "held"
                        THEN (IF IsSome(st[h][k]) THEN Unwrap(st[h][k]).tag ELSE "-")
                        ELSE (IF IsSome(st[h][k]) THEN Unwrap(st[h][k]).after ELSE "-")])]
ReleaseTag(op, tag) ==
    IF op = "discard" THEN "abandoned"
    ELSE IF tag = "written" THEN "released" ELSE "failed"

\* ------------------------------------------------------ reference count
\* The callers that hold a strong reference to CacheImpl (through a Cache, a
\* Topic or a KeyUpdater).
CallerRefs == {c \in Callers : pc[c] \notin {"done", "drop_send", "drop_recv",
                                              "freed", "drop_panicked", "panicked"}}
\* periodic_task holds the upgraded Arc from w.upgrade() to the end of the iteration.
LoopHolds == lpc \in {"flush", "gc"}
\* completion_rx lives in CacheImpl, stop_rx and completion_tx in periodic_task.
ImplFreed == \E c \in Callers : pc[c] \in {"freed", "drop_panicked"}
LoopReturned == lpc \in {"exited", "panicked"}

\* The state after Cache::new and two calls of Cache::topic with one name: the
\* callers of `cast` hold clones of the handles, the others hold nothing;
\* flush_gc_ratio is one of `ratios` and max_ttl one of `caps`.
InitCapped(cast, ratios, caps) ==
    /\ now = 0
    /\ config \in [flush_gc_ratio : ratios, max_ttl : caps]
    /\ table = [k \in Keys |-> None]
    /\ lazy_expiry_update = [k \in Keys |-> None]
    /\ listeners = [h \in Handles |-> [k \in Keys |-> None]]
    /\ pc = [c \in Callers |-> IF c \in cast THEN "idle" ELSE "done"]
    /\ at = [c \in Callers |-> NoAt]
    /\ ret = NoRet
    /\ faults = 0
    /\ lpc = "wait"
    /\ batch = [k \in Keys |-> None]
    /\ gc_ratio_counter = 0
    /\ gcNow = 0
    /\ iteration = 0
    /\ lret = NoLret
    /\ stop_q = 0
    /\ completion_q = 0
    /\ shadow = [k \in Keys |-> None]
    /\ stable = [h \in Handles |-> [k \in Keys |-> Unknown]]

\* The same with the default max_ttl of CacheConfig, None.
InitWith(cast, ratios) == InitCapped(cast, ratios, {None})

\* ---------------------------------------------------------- Topic::get
\* The body of Topic::get, reported as operation op: the select,
\* the insert into lazy_expiry_update when a row is found, and the result.
GetBody(op, k, okk) ==
    /\ Charge(okk)
    /\ table' = table
    /\ IF okk /\ IsSome(table[k])
       THEN LET e == ExpiryAt(now, Unwrap(table[k]).ttl) IN
            /\ lazy_expiry_update' = [lazy_expiry_update EXCEPT ![k] = Some(e)]
            /\ shadow' = [shadow EXCEPT ![k] =
                             Some([Unwrap(shadow[k]) EXCEPT !.exp = e, !.bySet = FALSE])]
       ELSE /\ lazy_expiry_update' = lazy_expiry_update
            /\ shadow' = shadow
    /\ ret' = [op |-> op, k |-> k,
               val |-> IF okk THEN ValueOf(table[k]) ELSE None, ok |-> okk]

Get(c, k) ==
    /\ pc[c] = "idle"
    /\ \E okk \in Outcomes : GetBody("get", k, okk)
    /\ UNCHANGED << now, config, listeners, pc, at, loopVars, chanVars, stable >>

\* ---------------------------------------------------------- Topic::set
\* The body of Topic::set: replace the row, then remove the pending refresh.
\* A failed statement returns before either.
SetBody(k, v, ttl, okk) ==
    /\ Charge(okk)
    /\ IF okk
       THEN LET t == ClampTtl(ttl)
                e == ExpiryAt(now, t) IN
            /\ table' = [table EXCEPT ![k] = Some([v |-> v, expiry |-> e, ttl |-> t])]
            /\ lazy_expiry_update' = [lazy_expiry_update EXCEPT ![k] = None]
            /\ shadow' = [shadow EXCEPT ![k] =
                             Some([v |-> v, exp |-> e, bySet |-> TRUE, swept |-> FALSE])]
       ELSE UNCHANGED << table, lazy_expiry_update, shadow >>

Set(c, k, v, ttl) ==
    /\ pc[c] = "idle"
    /\ \E okk \in Outcomes :
          /\ SetBody(k, v, ttl, okk)
          /\ stable' = IF okk THEN Invalidate(stable, k) ELSE stable
          /\ ret' = [op |-> "set", k |-> k, val |-> None, ok |-> okk]
    /\ UNCHANGED << now, config, listeners, pc, at, loopVars, chanVars >>

\* ------------------------------------------------------- Topic::delete
Delete(c, k) ==
    /\ pc[c] = "idle"
    /\ \E okk \in Outcomes :
          /\ Charge(okk)
          /\ table' = IF okk THEN [table EXCEPT ![k] = None] ELSE table
          /\ shadow' = IF okk THEN [shadow EXCEPT ![k] = None] ELSE shadow
          /\ stable' = IF okk THEN Invalidate(stable, k) ELSE stable
          /\ ret' = [op |-> "delete", k |-> k, val |-> None, ok |-> okk]
    /\ UNCHANGED << now, config, lazy_expiry_update, listeners, pc, at, loopVars, chanVars >>

\* ----------------------------------------------- Topic::get_for_update
\* TryLock without the look-up: the entry is inserted whether or not the key
\* has one.
TryLockNoCheck(c, h, k) ==
    /\ listeners' = [listeners EXCEPT ![h][k] = Some(<< >>)]
    /\ pc' = [pc EXCEPT ![c] = "locked"]

\* TryLock on a registry that all handles of the topic share: the key is taken
\* when any handle has an entry for it.
TryLockShared(c, h, k) ==
    IF \E hh \in Handles : IsSome(listeners[hh][k])
    THEN LET hh == CHOOSE x \in Handles : IsSome(listeners[x][k]) IN
         /\ Len(Unwrap(listeners[hh][k])) < MaxWaiters
         /\ listeners' = [listeners EXCEPT ![hh][k] = Some(Append(Unwrap(@), c))]
         /\ pc' = [pc EXCEPT ![c] = "await"]
    ELSE /\ listeners' = [listeners EXCEPT ![h][k] = Some(<< >>)]
         /\ pc' = [pc EXCEPT ![c] = "locked"]

\* One pass of the loop of get_for_update under the listeners mutex: push a
\* sender and wait when the key has an entry, insert an empty entry and leave
\* the loop when it has none.
TryLock(c, h, k) ==
    IF IsSome(listeners[h][k])
    THEN /\ Len(Unwrap(listeners[h][k])) < MaxWaiters
         /\ listeners' = [listeners EXCEPT ![h][k] = Some(Append(Unwrap(@), c))]
         /\ pc' = [pc EXCEPT ![c] = "await"]
    ELSE /\ listeners' = [listeners EXCEPT ![h][k] = Some(<< >>)]
         /\ pc' = [pc EXCEPT ![c] = "locked"]

\* The call of get_for_update and its first pass of the loop.
GetForUpdate(c, h, k) ==
    /\ pc[c] = "idle"
    /\ TryLock(c, h, k)
    /\ at' = [at EXCEPT ![c] = [h |-> h, k |-> k]]
    /\ UNCHANGED << now, config, table, lazy_expiry_update, ret, faults,
                    loopVars, chanVars, histVars >>

\* A waiter whose receiver resolved goes round the loop again.
Retry(c) ==
    /\ pc[c] = "woken"
    /\ TryLock(c, at[c].h, at[c].k)
    /\ UNCHANGED << now, config, table, lazy_expiry_update, at, ret, faults,
                    loopVars, chanVars, histVars >>

\* Cancel that cleans up after the waiter by removing the key's entry.
CancelRemovesEntry(c) ==
    /\ pc[c] \in {"await", "woken"}
    /\ pc' = [pc EXCEPT ![c] = "idle"]
    /\ at' = [at EXCEPT ![c] = NoAt]
    /\ listeners' = [listeners EXCEPT ![at[c].h][at[c].k] = None]
    /\ UNCHANGED << now, config, table, lazy_expiry_update, ret, faults,
                    loopVars, chanVars, histVars >>

\* The caller drops the future of get_for_update while it waits; its sender
\* stays in the entry.
Cancel(c) ==
    /\ pc[c] \in {"await", "woken"}
    /\ pc' = [pc EXCEPT ![c] = "idle"]
    /\ at' = [at EXCEPT ![c] = NoAt]
    /\ UNCHANGED << now, config, table, lazy_expiry_update, listeners, ret, faults,
                    loopVars, chanVars, histVars >>

\* Acquire with a read that does not go through Topic::get's insert into
\* lazy_expiry_update.
AcquireNoRefresh(c) ==
    /\ pc[c] = "locked"
    /\ \E okk \in Outcomes :
          /\ Charge(okk)
          /\ ret' = [op |-> "get_for_update", k |-> at[c].k,
                     val |-> IF okk THEN ValueOf(table[at[c].k]) ELSE None, ok |-> okk]
          /\ pc' = [pc EXCEPT ![c] = IF okk THEN "holding" ELSE "idle"]
          /\ at' = [at EXCEPT ![c] = IF okk THEN @ ELSE NoAt]
          /\ stable' = IF okk
                       THEN Mark(stable, at[c].h, at[c].k, "held", ValueOf(table[at[c].k]))
                       ELSE stable
    /\ UNCHANGED << now, config, table, lazy_expiry_update, listeners, loopVars, chanVars,
                    shadow >>

\* After the loop: `let data = self.get(key)?` and the return of the KeyUpdater.
\* On a storage error the function returns with the entry still in place.
Acquire(c) ==
    /\ pc[c] = "locked"
    /\ \E okk \in Outcomes :
          /\ GetBody("get_for_update", at[c].k, okk)
          /\ pc' = [pc EXCEPT ![c] = IF okk THEN "holding" ELSE "idle"]
          /\ at' = [at EXCEPT ![c] = IF okk THEN @ ELSE NoAt]
          /\ stable' = IF okk
                       THEN Mark(stable, at[c].h, at[c].k, "held", ValueOf(table[at[c].k]))
                       ELSE stable
    /\ UNCHANGED << now, config, listeners, loopVars, chanVars >>

\* ---------------------------------------------------------- KeyUpdater
\* Write that goes on to release without having stored the row.
WriteSkipsSet(c, v, ttl) ==
    /\ pc[c] = "holding"
    /\ pc' = [pc EXCEPT ![c] = "written"]
    /\ stable' = Mark(stable, at[c].h, at[c].k, "written", Some(v))
    /\ UNCHANGED << now, config, table, lazy_expiry_update, listeners, at, ret, faults,
                    loopVars, chanVars, shadow >>

\* Write whose error path returns without dropping the KeyUpdater (as with
\* mem::forget): the entry stays.
WriteForgetsOnError(c, v, ttl) ==
    /\ pc[c] = "holding"
    /\ \E okk \in Outcomes :
          /\ Charge(okk)
          /\ IF okk
             THEN /\ pc' = [pc EXCEPT ![c] = "written"]
                  /\ table' = [table EXCEPT ![at[c].k] =
                                  Some([v |-> v, expiry |-> now + ttl, ttl |-> ttl])]
                  /\ UNCHANGED << at, ret >>
             ELSE /\ pc' = [pc EXCEPT ![c] = "idle"]
                  /\ at' = [at EXCEPT ![c] = NoAt]
                  /\ ret' = [op |-> "write", k |-> at[c].k, val |-> None, ok |-> FALSE]
                  /\ table' = table
    /\ UNCHANGED << now, config, lazy_expiry_update, listeners, loopVars, chanVars, histVars >>

\* KeyUpdater::write, up to the return of self.topic.set(..): the KeyUpdater
\* is dropped after it, on the Ok and on the Err path alike.
Write(c, v, ttl) ==
    /\ pc[c] = "holding"
    /\ \E okk \in Outcomes :
          /\ SetBody(at[c].k, v, ttl, okk)
          /\ pc' = [pc EXCEPT ![c] = IF okk THEN "written" ELSE "write_failed"]
          /\ stable' = IF okk
                       THEN Mark([hh \in Handles |-> [kk \in Keys |->
                                   IF kk = at[c].k /\ hh # at[c].h THEN Unknown
                                   ELSE stable[hh][kk]]],
                                 at[c].h, at[c].k, "written", Some(v))
                       ELSE stable
    /\ UNCHANGED << now, config, listeners, at, ret, loopVars, chanVars >>

\* The callers whose receiver is in the entry of (h, k) and still polled.
Waiters(h, k) == {w \in Callers : pc[w] = "await" /\ at[w] = [h |-> h, k |-> k]}

\* Drop for KeyUpdater: remove the entry (unwrap panics when there is none);
\* dropping the senders resolves every waiting receiver.
Release(c, op, okk) ==
    LET h == at[c].h
        k == at[c].k IN
    IF IsSome(listeners[h][k])
    THEN /\ listeners' = [listeners EXCEPT ![h][k] = None]
         /\ pc' = [w \in Callers |->
                     IF w = c THEN "idle"
                     ELSE IF w \in Waiters(h, k) THEN "woken" ELSE pc[w]]
         /\ at' = [at EXCEPT ![c] = NoAt]
         /\ ret' = [op |-> op, k |-> k, val |-> None, ok |-> okk]
         /\ stable' = IF IsSome(stable[h][k])
                      THEN Mark(stable, h, k, ReleaseTag(op, Unwrap(stable[h][k]).tag),
                                Unwrap(stable[h][k]).val)
                      ELSE stable
    ELSE /\ pc' = [pc EXCEPT ![c] = "panicked"]
         /\ UNCHANGED << listeners, at, ret, stable >>

\* Discard that also deletes the key's row.
DiscardDeletes(c) ==
    /\ pc[c] = "holding"
    /\ Release(c, "discard", TRUE)
    /\ table' = [table EXCEPT ![at[c].k] = None]
    /\ UNCHANGED << now, config, lazy_expiry_update, faults, loopVars, chanVars, shadow >>

\* The KeyUpdater is dropped without a write.
Discard(c) ==
    /\ pc[c] = "holding"
    /\ Release(c, "discard", TRUE)
    /\ UNCHANGED << now, config, table, lazy_expiry_update, faults, loopVars, chanVars, shadow >>

\* The end of KeyUpdater::write: self is dropped and the result of set returned.
WriteReturn(c) ==
    /\ pc[c] \in {"written", "write_failed"}
    /\ Release(c, "write", pc[c] = "written")
    /\ UNCHANGED << now, config, table, lazy_expiry_update, faults, loopVars, chanVars, shadow >>

\* ------------------------------------------------- Drop for CacheImpl
\* A caller drops its Cache/Topic handles; the one that drops the last strong
\* reference runs Drop for CacheImpl.
DropRef(c) ==
    /\ pc[c] = "idle"
    /\ pc' = [pc EXCEPT ![c] =
                IF CallerRefs = {c} /\ ~LoopHolds THEN "drop_send" ELSE "done"]
    /\ UNCHANGED << now, config, table, lazy_expiry_update, listeners, at, ret, faults,
                    loopVars, chanVars, histVars >>

\* self.stop_tx.lock().unwrap().send(()).unwrap(): an error, and a panic, when
\* periodic_task has returned and dropped stop_rx.
DropSend(t) ==
    /\ IF t = "loop" THEN lpc = "drop_send" ELSE pc[t] = "drop_send"
    /\ IF t = "loop"
       THEN /\ lpc' = "drop_recv"
            /\ stop_q' = stop_q + 1
            /\ pc' = pc
       ELSE /\ lpc' = lpc
            /\ stop_q' = IF LoopReturned THEN stop_q ELSE stop_q + 1
            /\ pc' = [pc EXCEPT ![t] = IF LoopReturned THEN "drop_panicked" ELSE "drop_recv"]
    /\ UNCHANGED << now, config, table, lazy_expiry_update, listeners, at, ret, faults,
                    batch, gc_ratio_counter, gcNow, iteration, lret, completion_q, histVars >>

\* self.completion_rx.lock().unwrap().recv().unwrap(): blocks until the
\* acknowledgment is in the channel; an error when completion_tx is gone
\* and the channel is empty.
DropRecv(t) ==
    /\ IF t = "loop" THEN lpc = "drop_recv" ELSE pc[t] = "drop_recv"
    /\ completion_q > 0 \/ (LoopReturned /\ t # "loop")
    /\ IF t = "loop"
       THEN /\ lpc' = "freed"
            /\ pc' = pc
       ELSE /\ lpc' = lpc
            /\ pc' = [pc EXCEPT ![t] = IF completion_q > 0 THEN "freed" ELSE "drop_panicked"]
    /\ completion_q' = IF completion_q > 0 THEN completion_q - 1 ELSE 0
    /\ UNCHANGED << now, config, table, lazy_expiry_update, listeners, at, ret, faults,
                    batch, gc_ratio_counter, gcNow, iteration, lret, stop_q, histVars >>

\* ------------------------------------------------------ periodic_task
\* stop_rx.recv_timeout returned Ok: break.
LoopStop ==
    /\ lpc = "wait"
    /\ stop_q > 0
    /\ stop_q' = stop_q - 1
    /\ lpc' = "ack"
    /\ UNCHANGED << now, config, table, lazy_expiry_update, listeners, callerVars, faults,
                    batch, gc_ratio_counter, gcNow, iteration, lret, completion_q, histVars >>

\* recv_timeout timed out; w.upgrade(); and the first statement of
\* Cache::flush, which takes the whole map.
LoopTimeout ==
    /\ lpc = "wait"
    /\ stop_q = 0
    /\ IF CallerRefs # {}
       THEN /\ lpc' = "flush"
            /\ batch' = lazy_expiry_update
            /\ lazy_expiry_update' = [k \in Keys |-> None]
            /\ iteration' = (iteration + 1) % config.flush_gc_ratio
       ELSE /\ lpc' = "ack"
            /\ UNCHANGED << batch, lazy_expiry_update, iteration >>
    /\ UNCHANGED << now, config, table, listeners, callerVars, faults,
                    gc_ratio_counter, gcNow, lret, chanVars, histVars >>

\* FlushEntry with the statement turned into an insert-or-replace, which brings
\* back a row that was deleted after its refresh was queued.
FlushEntryUpsert(k) ==
    /\ lpc = "flush"
    /\ IsSome(batch[k])
    /\ \E okk \in Outcomes :
          /\ Charge(okk)
          /\ table' = IF okk
                      THEN [table EXCEPT ![k] =
                               Some([v |-> IF IsSome(table[k]) THEN Unwrap(table[k]).v ELSE "v1",
                                     expiry |-> Unwrap(batch[k]),
                                     ttl |-> IF IsSome(table[k]) THEN Unwrap(table[k]).ttl ELSE 0])]
                      ELSE table
          /\ lret' = [op |-> "flush", k |-> k, ok |-> okk, t |-> 0]
    /\ batch' = [batch EXCEPT ![k] = None]
    /\ UNCHANGED << now, config, lazy_expiry_update, listeners, callerVars,
                    lpc, gc_ratio_counter, gcNow, iteration, chanVars, histVars >>

\* FlushEntry that gives up the rest of the drained map on an error, as a
\* `?` in the loop of Cache::flush would.
FlushEntryAborts(k) ==
    /\ lpc = "flush"
    /\ IsSome(batch[k])
    /\ \E okk \in Outcomes :
          /\ Charge(okk)
          /\ table' = IF okk /\ IsSome(table[k])
                      THEN [table EXCEPT ![k] =
                               Some([Unwrap(table[k]) EXCEPT !.expiry = Unwrap(batch[k])])]
                      ELSE table
          /\ lret' = [op |-> "flush", k |-> k, ok |-> okk, t |-> 0]
          /\ batch' = IF okk THEN [batch EXCEPT ![k] = None] ELSE [kk \in Keys |-> None]
    /\ UNCHANGED << now, config, lazy_expiry_update, listeners, callerVars,
                    lpc, gc_ratio_counter, gcNow, iteration, chanVars, histVars >>

\* One entry of the drained map: update .. set expiry = ? where k = ?.
\* An error is logged and the entry is gone either way.
FlushEntry(k) ==
    /\ lpc = "flush"
    /\ IsSome(batch[k])
    /\ \E okk \in Outcomes :
          /\ Charge(okk)
          /\ table' = IF okk /\ IsSome(table[k])
                      THEN [table EXCEPT ![k] =
                               Some([Unwrap(table[k]) EXCEPT !.expiry = Unwrap(batch[k])])]
                      ELSE table
          /\ lret' = [op |-> "flush", k |-> k, ok |-> okk, t |-> 0]
    /\ batch' = [batch EXCEPT ![k] = None]
    /\ UNCHANGED << now, config, lazy_expiry_update, listeners, callerVars,
                    lpc, gc_ratio_counter, gcNow, iteration, chanVars, histVars >>

\* The end of an iteration of periodic_task: `cache` is dropped. When no caller
\* holds a reference any more it was the last one, and Drop for CacheImpl
\* runs on this thread.
AfterIteration == IF CallerRefs = {} THEN "drop_send" ELSE "wait"

\* LoopCount with the comparison made before the increment.
LoopCountLate ==
    /\ lpc = "flush"
    /\ \A k \in Keys : batch[k] = None
    /\ IF gc_ratio_counter = config.flush_gc_ratio
       THEN /\ gc_ratio_counter' = 0
            /\ gcNow' = now
            /\ lpc' = "gc"
       ELSE /\ gc_ratio_counter' = gc_ratio_counter + 1
            /\ gcNow' = gcNow
            /\ lpc' = AfterIteration
    /\ UNCHANGED << now, config, table, lazy_expiry_update, listeners, callerVars, faults,
                    batch, iteration, lret, chanVars, histVars >>

\* flush is over: count, and on every flush_gc_ratio-th pass enter gc, which
\* reads the clock first.
LoopCount ==
    /\ lpc = "flush"
    /\ \A k \in Keys : batch[k] = None
    /\ IF gc_ratio_counter + 1 = config.flush_gc_ratio
       THEN /\ gc_ratio_counter' = 0
            /\ gcNow' = now
            /\ lpc' = "gc"
       ELSE /\ gc_ratio_counter' = gc_ratio_counter + 1
            /\ gcNow' = gcNow
            /\ lpc' = AfterIteration
    /\ UNCHANGED << now, config, table, lazy_expiry_update, listeners, callerVars, faults,
                    batch, iteration, lret, chanVars, histVars >>

\* Expired with the comparison off by one: a row that expires in the very
\* second of the pass is swept too.
ExpiredInclusive(k) == IsSome(table[k]) /\ Unwrap(table[k]).expiry <= gcNow

\* The rows Cache::gc deletes from a table: delete .. where expiry < now.
Expired(k) == IsSome(table[k]) /\ Unwrap(table[k]).expiry < gcNow

\* Cache::gc after its clock read: list the tables and delete the expired
\* rows of each; an error ends the pass, logged by periodic_task.
LoopGc ==
    /\ lpc = "gc"
    /\ \E okk \in Outcomes :
          /\ Charge(okk)
          /\ table' = [k \in Keys |-> IF okk /\ Expired(k) THEN None ELSE table[k]]
          /\ shadow' = [k \in Keys |->
                          IF okk /\ Expired(k) /\ IsSome(shadow[k])
                          THEN Some([Unwrap(shadow[k]) EXCEPT !.swept = TRUE])
                          ELSE shadow[k]]
          /\ stable' = [h \in Handles |-> [k \in Keys |->
                          IF okk /\ Expired(k) THEN Unknown ELSE stable[h][k]]]
          /\ lret' = [op |-> "gc", k |-> "-", ok |-> okk, t |-> gcNow]
    /\ lpc' = AfterIteration
    /\ UNCHANGED << now, config, lazy_expiry_update, listeners, callerVars,
                    batch, gc_ratio_counter, gcNow, iteration, chanVars >>

\* completion_tx.send(()).unwrap(), and the return of periodic_task.
LoopAck ==
    /\ lpc = "ack"
    /\ lpc' = IF ImplFreed THEN "panicked" ELSE "exited"
    /\ completion_q' = IF ImplFreed THEN completion_q ELSE completion_q + 1
    /\ UNCHANGED << now, config, table, lazy_expiry_update, listeners, callerVars, faults,
                    batch, gc_ratio_counter, gcNow, iteration, lret, stop_q, histVars >>

\* ---------------------------------------------------------------- time
Tick ==
    /\ now < MaxTime
    /\ now' = now + 1
    /\ UNCHANGED << config, table, lazy_expiry_update, listeners, callerVars, faults,
                    loopVars, chanVars, histVars >>

CallerNext ==
    \E c \in Callers :
        \/ \E k \in Keys : Get(c, k)
        \/ \E k \in Keys, v \in Values, ttl \in TTLs : Set(c, k, v, ttl)
        \/ \E k \in Keys : Delete(c, k)
        \/ \E h \in Handles, k \in Keys : GetForUpdate(c, h, k)
        \/ Retry(c)
        \/ Cancel(c)
        \/ Acquire(c)
        \/ \E v \in Values, ttl \in TTLs : Write(c, v, ttl)
        \/ Discard(c)
        \/ WriteReturn(c)
        \/ DropRef(c)

LoopNext ==
    \/ LoopStop
    \/ LoopTimeout
    \/ \E k \in Keys : FlushEntry(k)
    \/ LoopCount
    \/ LoopGc
    \/ LoopAck

DropNext == \E t \in Callers \cup {"loop"} : DropSend(t) \/ DropRecv(t)

Next == CallerNext \/ LoopNext \/ DropNext \/ Tick

Init == InitWith(Callers, 1 .. MaxRatio)

\* The whole system.
Spec == Init /\ [][Next]_vars

\* The table and the maintenance loop: callers that get, set and delete, the
\* flush and GC iterations of periodic_task, and the clock.
StoreNext ==
    \/ \E c \in Callers :
          \/ \E k \in OneKey : Get(c, k)
          \/ \E k \in OneKey, v \in Values, ttl \in TTLs : Set(c, k, v, ttl)
          \/ \E k \in OneKey : Delete(c, k)
    \/ LoopTimeout
    \/ \E k \in Keys : FlushEntry(k)
    \/ LoopCount
    \/ LoopGc
    \/ Tick

SpecStore == InitWith({"c1", "c2"}, 1 .. MaxRatio) /\ [][StoreNext]_vars

\* The per-key lock of one Topic handle and its clones: callers that take,
\* write and abandon KeyUpdaters while others set, delete and get.
LockNext ==
    \E c \in Callers :
        \/ \E k \in OneKey : Get(c, k)
        \/ \E k \in OneKey, v \in Values, ttl \in TTLs : Set(c, k, v, ttl)
        \/ \E k \in OneKey : Delete(c, k)
        \/ \E k \in OneKey : GetForUpdate(c, "h1", k)
        \/ Retry(c)
        \/ Cancel(c)
        \/ Acquire(c)
        \/ \E v \in Values, ttl \in TTLs : Write(c, v, ttl)
        \/ Discard(c)
        \/ WriteReturn(c)

SpecLock == InitWith(Callers, {MaxRatio}) /\ [][LockNext]_vars

\* The life of the controller: callers that get and set and then drop their
\* handles, periodic_task, and Drop for CacheImpl on whichever thread drops the
\* last strong reference. The threads of the loop and of the destructor are
\* scheduled fairly; a caller is free never to drop its handles.
LifeNext ==
    \/ \E c \in Callers :
          \/ \E k \in OneKey : Get(c, k)
          \/ \E k \in OneKey, v \in Values, ttl \in TTLs : Set(c, k, v, ttl)
          \/ DropRef(c)
    \/ LoopNext
    \/ DropNext

SpecLife ==
    /\ InitWith({"c1", "c2"}, 1 .. MaxRatio)
    /\ [][LifeNext]_vars
    /\ WF_vars(LoopNext)
    /\ WF_vars(DropNext)

\* The lifetimes under a configured max_ttl: one caller that sets, gets and
\* writes through a KeyUpdater with ttls up to u64::MAX seconds, the flush and
\* GC iterations of periodic_task, and the clock.
LongTTLs == {1, 2, U64_MAX}
CapNext ==
    \/ \E k \in OneKey : Get("c1", k)
    \/ \E k \in OneKey, v \in {"v1"}, ttl \in LongTTLs : Set("c1", k, v, ttl)
    \/ \E k \in OneKey : GetForUpdate("c1", "h1", k)
    \/ Acquire("c1")
    \/ \E v \in {"v2"}, ttl \in LongTTLs : Write("c1", v, ttl)
    \/ WriteReturn("c1")
    \/ LoopTimeout
    \/ \E k \in Keys : FlushEntry(k)
    \/ LoopCount
    \/ LoopGc
    \/ Tick

SpecCap ==
    InitCapped({"c1"}, {MaxRatio}, {Some(1), Some(U64_MAX)}) /\ [][CapNext]_vars

\* ======================================================================
\* Properties of the table and the maintenance loop (SpecStore)
\* ======================================================================

\* C4: a direct set wins over a refresh that a get queued before it: while no
\* get of k has followed the last successful set of k, the row's stored expiry
\* is the one that set computed, whatever the flush does (stated for runs
\* without storage failures).
C4_SetWinsOverQueuedRefresh ==
    \A k \in Keys :
        (faults = 0 /\ IsSome(shadow[k]) /\ Unwrap(shadow[k]).bySet /\ IsSome(table[k]))
            => Unwrap(table[k]).expiry = Unwrap(shadow[k]).exp

\* C5: round trip of set / get / delete / flush. As long as no GC pass has
\* swept k, the table holds for k exactly the value of the last successful set
\* that no delete followed, and nothing when k was never written or was deleted
\* last (so no flush entry brings a deleted key back); a successful get returns
\* that; and get and delete fail only when the store fails.
C5_RoundTrip ==
    /\ \A k \in Keys :
          IF IsSome(shadow[k])
          THEN Unwrap(shadow[k]).swept \/ ValueOf(table[k]) = Some(Unwrap(shadow[k]).v)
          ELSE table[k] = None
    /\ (ret.op = "get" /\ ret.ok) =>
          IF IsSome(shadow[ret.k])
          THEN Unwrap(shadow[ret.k]).swept \/ ret.val = Some(Unwrap(shadow[ret.k]).v)
          ELSE ret.val = None
    /\ (ret.op \in {"get", "delete"} /\ ~ret.ok) => faults > 0

\* C5 witness: a refresh queued by a get was applied by the flush after the key
\* was deleted, and a get after that returned empty.
C5_Witness ==
    \E k \in Keys :
        /\ lret = [op |-> "flush", k |-> k, ok |-> TRUE, t |-> 0]
        /\ shadow[k] = None
        /\ batch[k] = None
        /\ ret = [op |-> "get", k |-> k, val |-> None, ok |-> TRUE]

\* C6: expired entries are invisible to reads: a get that succeeds on a row
\* whose stored expiry is earlier than the current time returns empty.
C6_ExpiredInvisible ==
    [][\A c \in Callers, k \in Keys :
          (Get(c, k) /\ ret'.ok /\ IsSome(table[k]) /\ Unwrap(table[k]).expiry < now)
              => ret'.val = None]_vars

\* C7: reads keep an entry alive: while the time since the last successful set
\* or get of k is no more than the row's ttl (so the next get is still due), no
\* GC pass has deleted the row (stated for runs without storage failures).
C7_ReadsKeepAlive ==
    \A k \in Keys :
        (faults = 0 /\ IsSome(shadow[k]) /\ now <= Unwrap(shadow[k]).exp)
            => IsSome(table[k])

\* C8: a GC pass that completes successfully removes exactly the rows whose
\* stored expiry is before the time the pass read at its start and leaves the
\* others as they are; after it, and until the flush next writes to the table,
\* no row with an expiry before that time is in the table.
C8_GcStep ==
    (lpc = "gc" /\ lpc' # "gc" /\ lret'.ok) =>
        \A k \in Keys :
            table'[k] = IF IsSome(table[k]) /\ Unwrap(table[k]).expiry < gcNow
                        THEN None ELSE table[k]
C8_Swept ==
    (lret.op = "gc" /\ lret.ok) =>
        \A k \in Keys : IsSome(table[k]) => Unwrap(table[k]).expiry >= lret.t
C8_GcSweep == []C8_Swept /\ [][C8_GcStep]_vars

\* C8 witness: a successful GC pass has swept a row that a set had written, and
\* a get after it returned empty.
C8_Witness ==
    \E k \in Keys :
        /\ lret.op = "gc" /\ lret.ok
        /\ IsSome(shadow[k]) /\ Unwrap(shadow[k]).swept
        /\ table[k] = None
        /\ ret = [op |-> "get", k |-> k, val |-> None, ok |-> TRUE]

\* The waiters of one Topic handle: callers that call get_for_update, wait,
\* give up waiting, write and abandon. A task that can run is polled: a woken
\* waiter goes round the loop again, a caller past the loop reads and returns,
\* a write returns. A holder is free to keep its KeyUpdater for ever.
WaitNext ==
    \E c \in Callers :
        \/ \E k \in OneKey : GetForUpdate(c, "h1", k)
        \/ Retry(c)
        \/ Cancel(c)
        \/ Acquire(c)
        \/ \E v \in Values, ttl \in TTLs : Write(c, v, ttl)
        \/ Discard(c)
        \/ WriteReturn(c)

SpecWait ==
    /\ InitWith(Callers, {MaxRatio})
    /\ [][WaitNext]_vars
    /\ \A c \in Callers : WF_vars(Retry(c) \/ Acquire(c) \/ WriteReturn(c))

\* C17: GC cadence: counting the timeout iterations of periodic_task from 1,
\* with flush_gc_ratio = N, the step that ends the flush of an iteration enters
\* a GC pass exactly when the iteration's number is a multiple of N; a GC pass
\* starts only from a flush whose drained batch is fully applied; and a GC
\* pass, failed or not, leaves the count where it was.
C17_CountStep ==
    (lpc = "flush" /\ lpc' # "flush") => ((lpc' = "gc") <=> (iteration = 0))
C17_GcStart ==
    (lpc # "gc" /\ lpc' = "gc") => (lpc = "flush" /\ \A k \in Keys : batch[k] = None)
C17_GcEnd ==
    (lpc = "gc" /\ lpc' # "gc") =>
        (gc_ratio_counter' = gc_ratio_counter /\ iteration' = iteration)
C17_GcCadence == [][C17_CountStep /\ C17_GcStart /\ C17_GcEnd]_vars

\* C17 witness: with flush_gc_ratio = 2 a GC pass has failed, and two
\* iterations later the loop is in its next GC pass.
C17_Witness ==
    /\ config.flush_gc_ratio = 2
    /\ lret.op = "gc" /\ ~lret.ok
    /\ lpc = "gc"
    /\ iteration = 0

\* The flush of a batch of several keys: one caller that sets and gets two
\* keys, the flush and GC iterations of periodic_task, and the clock.
BatchNext ==
    \/ \E k \in Keys : Get("c1", k)
    \/ \E k \in Keys : Set("c1", k, "v1", 1)
    \/ LoopTimeout
    \/ \E k \in Keys : FlushEntry(k)
    \/ LoopCount
    \/ LoopGc
    \/ Tick

SpecBatch == InitWith({"c1"}, {MaxRatio}) /\ [][BatchNext]_vars

\* A statement of the flush on key k has failed in this step.
C18_FlushFailed(k) ==
    lpc = "flush" /\ IsSome(batch[k]) /\ batch'[k] = None /\ faults' = faults + 1
\* The failure is only logged: the entry is gone from the drained map and is
\* not queued again, the other drained entries are still to be applied, the
\* loop is still in its flush, and no caller sees anything of it.
C18_FlushFailureStep ==
    \A k \in Keys :
        C18_FlushFailed(k) =>
            /\ \A kk \in Keys \ {k} : batch'[kk] = batch[kk]
            /\ lazy_expiry_update' = lazy_expiry_update
            /\ table' = table
            /\ lpc' = "flush"
            /\ << pc, at, ret >>' = << pc, at, ret >>
\* The flush ends only when every drained entry has had its statement, and a
\* drained entry whose statement succeeds on an existing row sets its expiry.
C18_BatchStep ==
    /\ (lpc = "flush" /\ lpc' # "flush") => \A k \in Keys : batch[k] = None
    /\ \A k \in Keys :
          (lpc = "flush" /\ IsSome(batch[k]) /\ batch'[k] = None
                /\ faults' = faults /\ IsSome(table[k]))
              => Unwrap(table'[k]).expiry = Unwrap(batch[k])
\* A refresh is queued by a read that found the row, and by nothing else.
C18_RequeueStep ==
    \A k \in Keys :
        (IsSome(lazy_expiry_update'[k]) /\ lazy_expiry_update'[k] # lazy_expiry_update[k])
            => /\ ret'.op \in {"get", "get_for_update"} /\ ret'.k = k /\ IsSome(ret'.val)
               /\ lpc' = lpc /\ batch' = batch
\* A failed GC pass changes nothing and the loop goes on.
C18_GcFailureStep ==
    (lpc = "gc" /\ faults' = faults + 1 /\ lpc' # "gc")
        => (table' = table /\ lpc' = AfterIteration /\ << pc, at, ret >>' = << pc, at, ret >>)

\* C18: maintenance errors are non-fatal and flush entries are applied at most
\* once: a failed statement of the flush does not keep the other entries of the
\* drained batch from being applied, reaches no caller, does not stop the loop
\* and is not put back in the batch (only a new get queues the key again); a
\* failed GC pass leaves the loop running too.
C18_MaintenanceErrors ==
    [][C18_FlushFailureStep /\ C18_BatchStep /\ C18_RequeueStep /\ C18_GcFailureStep]_vars

\* C18 witness: the flush has drained refreshes of two keys; the statement for
\* one failed and its refresh is lost (the row keeps its old expiry and nothing
\* is pending for it), the statement for the other was applied after it.
C18_Witness ==
    \E k1, k2 \in Keys :
        /\ k1 # k2
        /\ faults = 1
        /\ lpc = "flush"
        /\ lret = [op |-> "flush", k |-> k2, ok |-> TRUE, t |-> 0]
        /\ batch = [k \in Keys |-> None]
        /\ lazy_expiry_update[k1] = None
        /\ IsSome(table[k1]) /\ IsSome(shadow[k1]) /\ ~Unwrap(shadow[k1]).bySet
        /\ Unwrap(table[k1]).expiry # Unwrap(shadow[k1]).exp
        /\ IsSome(table[k2]) /\ IsSome(shadow[k2]) /\ ~Unwrap(shadow[k2]).bySet
        /\ Unwrap(table[k2]).expiry = Unwrap(shadow[k2]).exp
        /\ Unwrap(table[k2]).expiry # Unwrap(table[k1]).expiry

\* Two Topic handles from two calls of Cache::topic with one name, and their
\* clones: callers that take, write and abandon KeyUpdaters of one key through
\* either handle, and get.
TwoNext ==
    \E c \in Callers :
        \/ \E k \in OneKey : Get(c, k)
        \/ \E h \in Handles, k \in OneKey : GetForUpdate(c, h, k)
        \/ Retry(c)
        \/ Acquire(c)
        \/ \E v \in Values : Write(c, v, 1)
        \/ Discard(c)
        \/ WriteReturn(c)

SpecTwo == InitWith(Callers, {MaxRatio}) /\ [][TwoNext]_vars

\* The registry of one Topic handle with two keys: two callers that take, wait
\* for, give up waiting for and abandon either key, that get, set, delete and
\* write the first, and the flush and GC iterations of periodic_task.
EntryNext ==
    \/ \E c \in Callers :
          \/ \E k \in OneKey : Get(c, k)
          \/ \E k \in OneKey : Set(c, k, "v1", 1)
          \/ \E k \in OneKey : Delete(c, k)
          \/ \E k \in Keys : GetForUpdate(c, "h1", k)
          \/ Retry(c)
          \/ Cancel(c)
          \/ Acquire(c)
          \/ (at[c].k \in OneKey /\ Write(c, "v1", 1))
          \/ Discard(c)
          \/ WriteReturn(c)
    \/ LoopTimeout
    \/ \E k \in Keys : FlushEntry(k)
    \/ LoopCount
    \/ LoopGc

SpecEntry == InitWith({"c1", "c2"}, {1}) /\ [][EntryNext]_vars

\* ======================================================================
\* Properties of the lifetimes under max_ttl (SpecCap)
\* ======================================================================

\* With max_ttl configured, every row's ttl is at most max_ttl, and every
\* stored expiry and every pending refresh (queued, or drained and not yet
\* applied) is at most the current time plus max_ttl.
C11_Capped ==
    LET cap == Unwrap(config.max_ttl) IN
    IsSome(config.max_ttl) =>
        \A k \in Keys :
            /\ IsSome(table[k]) => /\ Unwrap(table[k]).ttl <= cap
                                   /\ Unwrap(table[k]).expiry <= now + cap
            /\ IsSome(lazy_expiry_update[k]) => Unwrap(lazy_expiry_update[k]) <= now + cap
            /\ IsSome(batch[k]) => Unwrap(batch[k]) <= now + cap

\* A successful set (directly or through KeyUpdater::write) at time `now`
\* leaves the row with ttl and expiry as `want` computes them from the request.
C11_SetStores(want(_)) ==
    /\ \A c \in Callers, k \in Keys, v \in Values, ttl \in LongTTLs :
          (Set(c, k, v, ttl) /\ ret'.ok)
              => /\ Unwrap(table'[k]).ttl = want(ttl)
                 /\ Unwrap(table'[k]).expiry = Min(now + want(ttl), I64_MAX)
    /\ \A c \in Callers, v \in Values, ttl \in LongTTLs :
          (Write(c, v, ttl) /\ pc'[c] = "written")
              => /\ Unwrap(table'[at[c].k]).ttl = want(ttl)
                 /\ Unwrap(table'[at[c].k]).expiry = Min(now + want(ttl), I64_MAX)

C11_CapOnly(ttl) == Min(ttl, Unwrap(config.max_ttl))
C11_CapAndWidth(ttl) == Min(Min(ttl, Unwrap(config.max_ttl)), I64_MAX)

\* C11 as stated: max_ttl caps every lifetime, and right after set(k, v, ttl)
\* at time t the row holds ttl' = min(ttl, max_ttl) and
\* expiry = min(t + ttl', 2^63 - 1).
C11_MaxTtlCaps == []C11_Capped /\ [][C11_SetStores(C11_CapOnly)]_vars

\* C11 amended: the same with ttl' = min(ttl, max_ttl, 2^63 - 1), the ttl being
\* clamped to the signed range like the expiry.
C11_MaxTtlCapsClamped == []C11_Capped /\ [][C11_SetStores(C11_CapAndWidth)]_vars

\* C11 witness: under max_ttl = 1 a row was stored with ttl 1, the clock has
\* moved on, a get has queued a refresh of now + 1 and the flush has applied an
\* earlier one.
C11_Witness ==
    \E k \in Keys :
        /\ config.max_ttl = Some(1)
        /\ now > 0
        /\ IsSome(table[k]) /\ Unwrap(table[k]).ttl = 1
        /\ lazy_expiry_update[k] = Some(now + 1)
        /\ lret = [op |-> "flush", k |-> k, ok |-> TRUE, t |-> 0]

\* ======================================================================
\* Properties of the controller's teardown (SpecLife)
\* ======================================================================

\* C3: teardown always completes: once no caller holds a reference to the
\* cache, periodic_task eventually returns, having sent its acknowledgment
\* (the first thing the claim promises; the destructor's wait can only return
\* after it).
C3_TeardownCompletes == (CallerRefs = {}) ~> (lpc = "exited")

\* C13: the maintenance loop never owns the controller: periodic_task never
\* holds the last strong reference to CacheImpl, so it performs no flush or GC
\* once the last caller has dropped its reference and never runs
\* Drop for CacheImpl itself.
C13_LoopNeverOwns ==
    /\ ~(LoopHolds /\ CallerRefs = {})
    /\ lpc \notin {"drop_send", "drop_recv", "freed"}

\* C14: the stop handshake never fails: the destructor's send of the stop
\* signal and its receive of the acknowledgment never return an error (their
\* unwrap never panics), and neither does the loop's send of the
\* acknowledgment.
C14_HandshakeNeverFails ==
    /\ \A c \in Callers : pc[c] # "drop_panicked"
    /\ lpc # "panicked"

\* ======================================================================
\* Properties of the per-key lock (SpecLock)
\* ======================================================================

\* The callers that own the lock of (h, k): the one whose get_for_update has
\* inserted the entry, up to the drop of its KeyUpdater.
Owners(h, k) ==
    {c \in Callers : /\ pc[c] \in {"locked", "holding", "written", "write_failed"}
                     /\ at[c] = [h |-> h, k |-> k]}

\* C1: mutual exclusion of get_for_update: on one Topic handle, at most one
\* caller at a time is past the loop of get_for_update for a key and has not
\* dropped its KeyUpdater, and the key has its entry for as long.
C1_MutualExclusion ==
    \A h \in Handles, k \in Keys :
        /\ Cardinality(Owners(h, k)) <= 1
        /\ Owners(h, k) # {} => IsSome(listeners[h][k])

\* C1 witness: after a release woke two waiters, one of them holds the
\* KeyUpdater, one has gone back to waiting and a third caller is yet to retry.
C1_Witness ==
    \E a, b, w \in Callers, k \in Keys :
        /\ pc[a] = "holding" /\ pc[b] = "await" /\ pc[w] = "woken"
        /\ at[a] = at[b] /\ at[a] = at[w] /\ at[a].k = k

\* The step in which c's get_for_update returns its KeyUpdater.
Acquired(c) == pc[c] = "locked" /\ pc'[c] = "holding"

\* C2: write persists before it releases: when a written KeyUpdater has been
\* dropped and nothing else has set, deleted or swept the key since, the table
\* holds the written value, and the caller that acquires the key next is
\* returned it.
C2_ReleasedValue ==
    \A h \in Handles, k \in Keys :
        (IsSome(stable[h][k]) /\ Unwrap(stable[h][k]).tag = "released")
            => ValueOf(table[k]) = Unwrap(stable[h][k]).val
C2_NextGetsWritten ==
    \A c \in Callers :
        (/\ Acquired(c)
         /\ IsSome(stable[at[c].h][at[c].k])
         /\ Unwrap(stable[at[c].h][at[c].k]).tag = "released")
            => ret'.val = Unwrap(stable[at[c].h][at[c].k]).val
C2_WriteThenRelease == []C2_ReleasedValue /\ [][C2_NextGetsWritten]_vars

\* C2 witness: a caller that waited for the key holds it, acquired right after
\* the release of a write of v2, and was returned v2.
C2_Witness ==
    \E c \in Callers :
        /\ pc[c] = "holding"
        /\ stable[at[c].h][at[c].k] =
               Some([tag |-> "held", val |-> Some("v2"), after |-> "released"])
        /\ ret = [op |-> "get_for_update", k |-> at[c].k, val |-> Some("v2"), ok |-> TRUE]
        /\ \E w \in Callers : pc[w] = "woken" /\ at[w] = at[c]

\* The step in which c drops its KeyUpdater without a write.
Discarded(c) == pc[c] = "holding" /\ pc'[c] # "holding" /\ ret'.op = "discard"

\* C9: an abandoned lock: dropping a KeyUpdater without write removes the
\* key's entry and leaves the table as it is, and when nothing else has set,
\* deleted or swept the key since the abandoned lock was taken, the caller that
\* acquires the key next on that handle is returned what the abandoning caller
\* was returned.
C9_DiscardStep ==
    \A c \in Callers :
        Discarded(c) => /\ listeners'[at[c].h][at[c].k] = None
                        /\ table' = table
C9_NextGetsSame ==
    \A c \in Callers :
        (/\ Acquired(c)
         /\ IsSome(stable[at[c].h][at[c].k])
         /\ Unwrap(stable[at[c].h][at[c].k]).tag = "abandoned")
            => ret'.val = Unwrap(stable[at[c].h][at[c].k]).val
C9_AbandonedLock == [][C9_DiscardStep /\ C9_NextGetsSame]_vars

\* C9 witness: a caller holds the key, acquired right after another KeyUpdater
\* for it was abandoned, and was returned the stored v1 again.
C9_Witness ==
    \E c \in Callers :
        /\ pc[c] = "holding"
        /\ stable[at[c].h][at[c].k] =
               Some([tag |-> "held", val |-> Some("v1"), after |-> "abandoned"])
        /\ ret = [op |-> "get_for_update", k |-> at[c].k, val |-> Some("v1"), ok |-> TRUE]

\* C10: release is unconditional on write failure: in the step in which write
\* returns a storage error to its caller, the key's entry is removed and every
\* caller waiting in it is woken.
C10_FailedWriteStep ==
    \A c \in Callers :
        (/\ pc[c] \in {"holding", "write_failed"}
         /\ pc'[c] \notin {"holding", "written", "write_failed"}
         /\ ret'.op = "write" /\ ~ret'.ok)
            => /\ listeners'[at[c].h][at[c].k] = None
               /\ \A w \in Waiters(at[c].h, at[c].k) : pc'[w] = "woken"
C10_ReleaseOnWriteFailure == [][C10_FailedWriteStep]_vars

\* C10 witness: a write has returned an error, the key has no entry and a
\* caller that waited for it is woken.
C10_Witness ==
    \E w \in Callers :
        /\ ret.op = "write" /\ ~ret.ok
        /\ pc[w] = "woken"
        /\ listeners[at[w].h][at[w].k] = None

\* The callers that hold a live KeyUpdater of (h, k).
Updaters(h, k) ==
    {c \in Callers : /\ pc[c] \in {"holding", "written", "write_failed"}
                     /\ at[c] = [h |-> h, k |-> k]}

\* C12: no orphaned lock entries: whenever no get_for_update is between its
\* insertion of an entry and its return, a key has an entry only if a live
\* KeyUpdater for it exists; so after get_for_update returned a storage error
\* the key is free.
C12_NoOrphanedEntries ==
    (\A c \in Callers : pc[c] # "locked") =>
        \A h \in Handles, k \in Keys :
            IsSome(listeners[h][k]) => Updaters(h, k) # {}

\* C15 as stated: get_for_update does not queue expiry-refresh work: the step
\* in which it reads the value and returns leaves lazy_expiry_update without
\* any entry for the key that was not there before.
C15_NoRefreshQueued ==
    [][\A c \in Callers :
          Acquired(c) => (IsSome(lazy_expiry_update'[at[c].k])
                              => IsSome(lazy_expiry_update[at[c].k]))]_vars

\* C15 amended: get_for_update queues the same refresh as get: when the key
\* has a stored row, its return leaves the pending expiry of the key at the
\* current time plus the row's ttl (clamped to 2^63 - 1); when the key has no
\* row, or the read fails, lazy_expiry_update is left as it was.
C15_RefreshStep ==
    \A c \in Callers :
        (pc[c] = "locked" /\ pc'[c] # "locked") =>
            LET k == at[c].k IN
            IF ret'.ok /\ IsSome(table[k])
            THEN /\ lazy_expiry_update'[k] = Some(Min(now + Unwrap(table[k]).ttl, I64_MAX))
                 /\ \A kk \in Keys \ {k} : lazy_expiry_update'[kk] = lazy_expiry_update[kk]
            ELSE lazy_expiry_update' = lazy_expiry_update
C15_RefreshQueuedAsGet == [][C15_RefreshStep]_vars

\* C15 witness: a caller holds a KeyUpdater for a key whose stored value it was
\* returned after the clock had moved on, and the key's refresh is pending.
C15_Witness ==
    \E c \in Callers :
        /\ pc[c] = "holding"
        /\ ret.op = "get_for_update" /\ ret.ok /\ IsSome(ret.val)
        /\ now > 0
        /\ IsSome(table[at[c].k])
        /\ lazy_expiry_update[at[c].k] = Some(Min(now + Unwrap(table[at[c].k]).ttl, I64_MAX))

\* A release wakes every caller that waits in the entry it removes.
C16_ReleaseWakes ==
    \A c \in Callers :
        (pc[c] \in {"holding", "written", "write_failed"} /\ pc'[c] = "idle") =>
            /\ listeners'[at[c].h][at[c].k] = None
            /\ \A w \in Waiters(at[c].h, at[c].k) : pc'[w] = "woken"
\* A woken waiter that does not give up sees the key acquired, by itself or
\* by another caller.
C16_Progress ==
    \A c \in Callers, k \in Keys :
        (pc[c] = "woken" /\ at[c] = [h |-> "h1", k |-> k])
            ~> (Updaters("h1", k) # {} \/ pc[c] = "idle")

\* C16: no lost wakeup and progress for waiters: the release that removes a
\* key's entry wakes every caller waiting in it, and under fair scheduling,
\* after a release that woke a waiter, some caller acquires the key (or the
\* waiter has given up).
C16_NoLostWakeup ==
    /\ [][C16_ReleaseWakes]_vars
    /\ C16_Progress

\* A pass of get_for_update's loop suspends the caller exactly when the
\* registry of the handle it calls through has an entry for the key.
C19_LockStep ==
    \A c \in Callers :
        (pc[c] \in {"idle", "woken"} /\ pc'[c] \in {"locked", "await"}) =>
            ((pc'[c] = "await") <=> IsSome(listeners[at'[c].h][at'[c].k]))
\* What a read returns, through whichever handle, is what was written last,
\* through whichever handle.
C19_ReadStep ==
    \A k \in Keys :
        (ret' # ret /\ ret'.op \in {"get", "get_for_update"} /\ ret'.ok /\ ret'.k = k)
            => ret'.val = IF IsSome(shadow[k]) THEN Some(Unwrap(shadow[k]).v) ELSE None
\* The clones of one handle exclude each other.
C19_OnePerHandle ==
    \A h \in Handles, k \in Keys : Cardinality(Updaters(h, k)) <= 1

\* C19: lock registries are per Topic handle: a KeyUpdater held through one
\* handle never suspends get_for_update on another handle of the same topic,
\* while the clones of one handle share one registry, and the handles share the
\* table: a value written through one is what a read through the other returns.
C19_PerHandleRegistry ==
    /\ []C19_OnePerHandle
    /\ [][C19_LockStep /\ C19_ReadStep]_vars

\* C19 witness: two callers hold a KeyUpdater for the same key at once, one
\* through each handle, the second was returned the value the first one's
\* predecessor had written, and a third caller waits on a clone of the first
\* handle.
C19_Witness ==
    \E a, b, w \in Callers, k \in Keys :
        /\ pc[a] = "holding" /\ at[a] = [h |-> "h1", k |-> k]
        /\ pc[b] = "holding" /\ at[b] = [h |-> "h2", k |-> k]
        /\ pc[w] = "await" /\ at[w] = [h |-> "h1", k |-> k]
        /\ stable["h1"][k] = Some([tag |-> "held", val |-> Some("v2"), after |-> "released"])
        /\ ret = [op |-> "get_for_update", k |-> k, val |-> Some("v2"), ok |-> TRUE]

\* Every live KeyUpdater has its entry, and no release has panicked.
C20_EntryPresent ==
    /\ \A h \in Handles, k \in Keys : Updaters(h, k) # {} => IsSome(listeners[h][k])
    /\ \A c \in Callers : pc[c] # "panicked"
\* An entry is removed only by the release of the KeyUpdater of its key.
C20_RemovalStep ==
    \A h \in Handles, k \in Keys :
        (IsSome(listeners[h][k]) /\ listeners'[h][k] = None) =>
            \E c \in Updaters(h, k) :
                /\ pc'[c] = "idle"
                /\ ret'.op \in {"write", "discard"} /\ ret'.k = k

\* C20: release never finds its entry missing: for every live KeyUpdater the
\* registry of its handle has an entry for its key, so the unwrap in
\* Drop for KeyUpdater never panics, and nothing but the release of the key's
\* own KeyUpdater removes a key's entry.
C20_ReleaseFindsEntry == []C20_EntryPresent /\ [][C20_RemovalStep]_vars

\* C20 witness: a caller holds the KeyUpdater of one key, in whose entry the
\* sender of a waiter that gave up is left, after that waiter took and released
\* the other key.
C20_Witness ==
    \E c, w \in Callers, k1, k2 \in Keys :
        /\ k1 # k2 /\ c # w
        /\ pc[c] = "holding" /\ at[c] = [h |-> "h1", k |-> k1]
        /\ listeners["h1"][k1] = Some(<< w >>)
        /\ pc[w] = "idle"
        /\ ret.op \in {"write", "discard"} /\ ret.k = k2
        /\ listeners["h1"][k2] = None

=============================================================================
